---------------------------- MODULE Spec2Model ----------------------------
(* A model of the load balancer: the token-bucket rate limiter registry    *)
(* (package ratelimiter), the round-robin pool with its health probes      *)
(* (package balancer) and the per-request pipeline of the proxy            *)
(* (RateLimitMiddleware, ProxyServer.handleProxy).                         *)
(* Goroutines are the processes Procs; every step is one atomic access to  *)
(* shared state (a mutex acquisition with the lock-protected work that     *)
(* follows it, an atomic add, an atomic load or store).                    *)
EXTENDS Integers, Sequences, FiniteSets, TLC

(***************************************************************************)
(* Bounds of the model                                                     *)
(***************************************************************************)
\* operations (calls, requests, probe cycles) started in one behaviour
MaxOps == 3
\* the clock runs from 0 to MaxTime ticks
MaxTime == 2
\* clock ticks per second
TicksPerSec == 2
\* capacities range over 0..MaxCap
MaxCap == 1
\* refill rates (tokens per second) range over 0..MaxRate
MaxRate == 1

\* X-Forwarded-For values have at most MaxHeaderLen characters
MaxHeaderLen == 3

Procs == {1, 2}
SeqProcs == {1}
Clients == {"c1", "c2"}
OneClient == {"c1"}

Capacities == 0..MaxCap
RefillRates == 0..MaxRate
\* expirations passed to Cleanup, in ticks
TTLs == {0, 1}

Min(a, b) == IF a < b THEN a ELSE b

(***************************************************************************)
(* State                                                                   *)
(***************************************************************************)
VARIABLES
  now,                \* time.Now(), in ticks
  buckets,            \* RateLimiter.buckets: client -> bucket object (0: no entry)
  heap,               \* the TokenBucket objects ever allocated
  clientLimits,       \* RateLimiter.clientLimits: client -> ClientLimit or NoLimit
  defaultCapacity,    \* RateLimiter.defaultCapacity
  defaultRefillRate,  \* RateLimiter.defaultRefillRate
  rlmu,               \* RateLimiter.mu: the goroutine holding it (0: free)
  backends,           \* RoundRobinLoadBalancer.backends: the addresses, in order
  alive,              \* Backend.IsAlive of each backend
  currentIndex,       \* RoundRobinLoadBalancer.currentIndex, a uint32
  probes,             \* the health-check goroutines in flight, per backend
  proc,               \* the goroutines: operation, position and locals
  nops,               \* operations started so far
  granted,            \* history: Allow calls of a client that returned true
  admitted,           \* history: the same, counted on across evictions
  calls,              \* history: Allow calls of a client that returned
  since,              \* history: when the client's current map entry was first created
  recent,             \* history: what the selections since the last alive write returned
  excluded,           \* history: marked not alive, no later-issued probe has succeeded
  lastMark            \* history: the MarkBackendUnhealthy calls so far, the last one's address

rlvars == <<now, buckets, heap, clientLimits, defaultCapacity, defaultRefillRate,
            rlmu, granted, admitted, calls, since>>
lbvars == <<backends, alive, currentIndex, probes, recent, excluded, lastMark>>
vars == <<now, buckets, heap, clientLimits, defaultCapacity, defaultRefillRate,
          rlmu, backends, alive, currentIndex, probes, proc, nops, granted, admitted, calls,
          since, recent, excluded, lastMark>>

NoLimit == [Capacity |-> -1, RefillRate |-> -1]
Nil == -1

\* an http.Request, as far as the client identity reads it: what
\* r.Header.Get returns for the two headers ("" when the header is absent) and
\* r.RemoteAddr; strings are sequences of characters
NoRequest == [xRealIP |-> <<>>, xForwardedFor |-> <<>>, remoteAddr |-> <<>>]

\* a goroutine that runs nothing
IdleProc ==
  [op |-> "none", pc |-> "idle", clientID |-> "", bucket |-> 0,
   refilled |-> FALSE, empty |-> FALSE,
   cnow |-> 0, expiration |-> 0, todo |-> {}, address |-> "",
   attempt |-> 0, added |-> 0, index |-> 0, target |-> Nil,
   examined |-> {}, reexamined |-> FALSE, steady |-> {}, everAlive |-> FALSE,
   responses |-> <<>>, selections |-> 0, forwarded |-> <<>>, marked |-> {},
   request |-> NoRequest]

\* a goroutine may start an operation
CanStart(p) == proc[p].pc = "idle" /\ nops < MaxOps

(***************************************************************************)
(* Responses                                                               *)
(***************************************************************************)
\* sendJSONError(w, statusCode, message)
JSONError(statusCode) ==
  [status |-> statusCode, contentType |-> "application/json", code |-> statusCode]

\* http.Error(w, message, statusCode): a plain-text body
PlainError(statusCode) ==
  [status |-> statusCode, contentType |-> "text/plain", code |-> Nil]

\* the response of the backend, copied to the client by the reverse proxy
BackendResponse == [status |-> 200, contentType |-> "backend", code |-> Nil]

(***************************************************************************)
(* TokenBucket                                                             *)
(***************************************************************************)
\* Go's int has the width of the build: here that of a 32-bit build, the
\* widest whose values the model checker's integers hold
IntMax == 2147483647
IntMin == -IntMax - 1

\* a + b on int: the sum wraps around
AddInt(a, b) ==
  IF b >= 0 /\ a > IntMax - b THEN IntMin + (a - (IntMax - b) - 1)
  ELSE IF b < 0 /\ a < IntMin - b THEN IntMax - ((IntMin - b) - a - 1)
  ELSE a + b

NewTokenBucket(capacity, refillRate) ==
  [Capacity |-> capacity, Tokens |-> capacity, RefillRate |-> refillRate,
   mu |-> 0, lastRefill |-> now, lastSeen |-> now,
   used |-> FALSE]          \* history: an Allow call has completed on the bucket

\* floor(elapsed * tb.RefillRate) with elapsed in seconds, for a rate >= 0,
\* computed from the quotient and the remainder of the rate by the ticks of a
\* second so that no intermediate value leaves the integers of the model checker
Elapsed(tb, t) == t - tb.lastRefill
TokensToAdd(tb, t) ==
  Elapsed(tb, t) * (tb.RefillRate \div TicksPerSec)
    + (Elapsed(tb, t) * (tb.RefillRate % TicksPerSec)) \div TicksPerSec

\* elapsed * float64(tb.RefillRate) is a value of int
InIntRange(tb, t) ==
  \/ Elapsed(tb, t) = 0
  \/ tb.RefillRate \div TicksPerSec
       <= (IntMax - (Elapsed(tb, t) * (tb.RefillRate % TicksPerSec)) \div TicksPerSec)
            \div Elapsed(tb, t)

\* int(elapsed * float64(tb.RefillRate)): the conversion of a value outside
\* int's range depends on the build: the least int (x86) or the largest (arm)
IntOfFloat(tb, t) ==
  IF InIntRange(tb, t) THEN {TokensToAdd(tb, t)} ELSE {IntMin, IntMax}

\* TokenBucket.refill, given what the conversion returned
refill(tb, tokensToAdd) ==
  IF tokensToAdd > 0
    THEN [tb EXCEPT !.Tokens = Min(tb.Capacity, AddInt(tb.Tokens, tokensToAdd)),
                    !.lastRefill = now]
    ELSE tb

\* a test that admits at zero tokens
HasTokenOffByOne(tb) == tb.Tokens >= 0

\* the test of TokenBucket.Allow
HasToken(tb) == tb.Tokens > 0

\* the rest of TokenBucket.Allow after refill: lastSeen, the test, the decrement
TakeToken(tb) ==
  IF HasToken(tb)
    THEN [tb EXCEPT !.lastSeen = now, !.Tokens = tb.Tokens - 1, !.used = TRUE]
    ELSE [tb EXCEPT !.lastSeen = now, !.used = TRUE]

(***************************************************************************)
(* RoundRobinLoadBalancer                                                  *)
(***************************************************************************)
\* currentIndex is a uint32, kept as two 16-bit halves: its value is
\* hi * Half + lo
Half == 65536
Uint32(hi, lo) == [hi |-> hi, lo |-> lo]

\* an increment that advances the cursor by two
AddUint32Twice(c) ==
  IF c.lo + 2 < Half THEN Uint32(c.hi, c.lo + 2)
  ELSE Uint32((c.hi + 1) % Half, (c.lo + 2) % Half)

\* atomic.AddUint32(&lb.currentIndex, 1): the new value, modulo 2^32
AddUint32(c) ==
  IF c.lo + 1 < Half THEN Uint32(c.hi, c.lo + 1)
  ELSE Uint32((c.hi + 1) % Half, 0)

\* c % uint32(total)
IndexOf(c, total) == (((c.hi % total) * (Half % total)) + c.lo) % total

\* url.Parse fails on the raw URL "bad"
ParseFails(rawURL) == rawURL = "bad"

\* the backends NewRoundRobinLoadBalancer registers for the configured URLs
RECURSIVE Registered(_)
Registered(backendURLs) ==
  IF backendURLs = <<>> THEN <<>>
  ELSE IF ParseFails(Head(backendURLs)) THEN Registered(Tail(backendURLs))
  ELSE <<Head(backendURLs)>> \o Registered(Tail(backendURLs))

\* a backend without a probe goroutine
NoProbe == [stage |-> "idle", isHealthy |-> FALSE, fresh |-> FALSE]

NewRoundRobinLoadBalancer(backendURLs) ==
  /\ backends = Registered(backendURLs)
  /\ alive = [i \in 1..Len(Registered(backendURLs)) |-> TRUE]
  /\ probes = [i \in 1..Len(Registered(backendURLs)) |-> NoProbe]
  /\ excluded = [i \in 1..Len(Registered(backendURLs)) |-> FALSE]

Pool == 1..Len(backends)
\* history: a probe in flight when its backend is marked not alive was issued
\* before the marking
Outdated(pr) == [pr EXCEPT !.fresh = FALSE]

InSelection(q) == proc[q].pc \in {"nab", "nab_load"}

\* history: what a selection in progress has seen of the alive flags
Observe(pr, newAlive) ==
  [pr EXCEPT !.steady = {i \in @ : newAlive[i]},
             !.everAlive = @ \/ (\E i \in Pool : newAlive[i])]

\* the goroutines after p took a step to newp and the alive flags became newAlive
Procs2(p, newp, newAlive) ==
  [q \in Procs |-> IF q = p THEN newp
                   ELSE IF InSelection(q) THEN Observe(proc[q], newAlive)
                   ELSE proc[q]]

KeepLast(s, n) == IF Len(s) > n THEN SubSeq(s, Len(s) - n + 1, Len(s)) ELSE s

\* a load that takes every candidate for alive
IsAliveLoadIgnored(index) == TRUE

\* candidate.IsAlive.Load()
IsAliveLoad(index) == alive[index + 1]

\* a call of NextAvailableBackend begins
EnterSelect(pr) ==
  [pr EXCEPT !.pc = "nab", !.attempt = 0, !.added = 0, !.index = 0, !.target = Nil,
             !.examined = {}, !.reexamined = FALSE,
             !.steady = {i \in Pool : alive[i]},
             !.everAlive = \E i \in Pool : alive[i],
             !.selections = @ + 1]

\* the goroutine after NextAvailableBackend returned target (Nil: no backend)
AfterSelect(pr, target) ==
  IF pr.op = "Request"
    THEN IF target = Nil
           THEN [pr EXCEPT !.pc = "idle", !.target = Nil,
                           !.responses = Append(@, JSONError(503))]
           ELSE [pr EXCEPT !.pc = "hp_forward", !.target = target]
    ELSE [pr EXCEPT !.pc = "idle", !.target = target]

\* a middleware that answers 429 and calls the next handler all the same
AfterAllowNoReturn(pr, ok) ==
  IF pr.op = "Request"
    THEN IF ok THEN EnterSelect(pr)
         ELSE EnterSelect([pr EXCEPT !.responses = Append(@, PlainError(429))])
    ELSE IdleProc

\* the goroutine after rl.Allow returned ok: a direct caller is done; in
\* RateLimitMiddleware a denied request is answered 429 and an admitted one goes
\* on to handleProxy, which calls NextAvailableBackend
AfterAllow(pr, ok) ==
  IF pr.op = "Request"
    THEN IF ok THEN EnterSelect(pr)
         ELSE [pr EXCEPT !.pc = "idle", !.responses = Append(@, PlainError(429))]
    ELSE IdleProc

(***************************************************************************)
(* Client identity                                                         *)
(***************************************************************************)
\* strings.TrimSpace
RECURSIVE TrimLeft(_)
TrimLeft(s) == IF s # <<>> /\ Head(s) = " " THEN TrimLeft(Tail(s)) ELSE s

RECURSIVE TrimRight(_)
TrimRight(s) ==
  IF s # <<>> /\ s[Len(s)] = " " THEN TrimRight(SubSeq(s, 1, Len(s) - 1)) ELSE s

TrimSpace(s) == TrimRight(TrimLeft(s))

\* the positions of character ch in s
Positions(s, ch) == {i \in 1..Len(s) : s[i] = ch}

Least(S) == CHOOSE i \in S : \A j \in S : i <= j
Greatest(S) == CHOOSE i \in S : \A j \in S : i >= j

\* strings.Split(s, ",")[0]
FirstEntry(s) ==
  IF Positions(s, ",") = {} THEN s
  ELSE SubSeq(s, 1, Least(Positions(s, ",")) - 1)

\* the host net.SplitHostPort returns for an address without brackets: the part
\* before the last colon, "" on an error (no colon, or a colon in the host)
SplitHostPort(addr) ==
  IF Positions(addr, ":") = {} THEN <<>>
  ELSE LET host == SubSeq(addr, 1, Greatest(Positions(addr, ":")) - 1)
       IN IF Positions(host, ":") # {} THEN <<>> ELSE host

\* extractClientIP of the rate-limit middleware
extractClientIP(r) ==
  LET ip1 == r.xRealIP
      ip2 == IF ip1 = <<>> THEN r.xForwardedFor ELSE ip1
      ip3 == IF ip2 = <<>> THEN SplitHostPort(r.remoteAddr) ELSE ip2
  IN TrimSpace(ip3)

\* getClientIP of the proxy handler (the address it logs)
getClientIP(r) ==
  IF r.xRealIP # <<>> THEN TrimSpace(r.xRealIP)
  ELSE IF r.xForwardedFor # <<>> THEN TrimSpace(FirstEntry(r.xForwardedFor))
  ELSE TrimSpace(SplitHostPort(r.remoteAddr))

\* the middleware receives request r and computes the key of its rate-limit check
ExtractClientIP(p, r) ==
  /\ CanStart(p)
  /\ nops' = nops + 1
  /\ proc' = [proc EXCEPT ![p] =
       [IdleProc EXCEPT !.op = "ExtractClientIP", !.request = r,
                        !.clientID = extractClientIP(r)]]
  /\ UNCHANGED rlvars
  /\ UNCHANGED lbvars

(***************************************************************************)
(* RateLimiter                                                             *)
(***************************************************************************)
NewRateLimiter(capacity, refillRate) ==
  /\ buckets = [c \in Clients |-> 0]
  /\ heap = <<>>
  /\ clientLimits = [c \in Clients |-> NoLimit]
  /\ defaultCapacity = capacity
  /\ defaultRefillRate = refillRate
  /\ rlmu = 0

\* rl.SetClientLimit(clientID, limit)
SetClientLimit(p, clientID, limit) ==
  /\ CanStart(p)
  /\ rlmu = 0
  /\ clientLimits' = [clientLimits EXCEPT ![clientID] = limit]
  /\ nops' = nops + 1
  /\ proc' = [proc EXCEPT ![p] = IdleProc]
  /\ UNCHANGED <<now, buckets, heap, defaultCapacity, defaultRefillRate, rlmu,
                 granted, admitted, calls, since>>
  /\ UNCHANGED lbvars

\* a lookup that finds the same bucket for every client
LookupShared(clientID) == buckets["c1"]

\* getBucket: bucket, exists := rl.buckets[clientID] (0: no entry)
Lookup(clientID) == buckets[clientID]

\* rl.Allow(clientID) begins, called directly (op "Allow") or by the middleware
\* for a request (op "Request"): getBucket reads the map under the read lock
GetBucketRead(p, clientID, op) ==
  /\ CanStart(p)
  /\ rlmu = 0
  /\ nops' = nops + 1
  /\ proc' = [proc EXCEPT ![p] =
       [IdleProc EXCEPT !.op = op, !.clientID = clientID,
                        !.bucket = Lookup(clientID),
                        !.pc = IF Lookup(clientID) # 0 THEN "tb_lock" ELSE "gb_lock"]]
  /\ UNCHANGED rlvars
  /\ UNCHANGED lbvars

\* a getBucket that creates every bucket with the defaults
LimitForDefault(clientID) ==
  [Capacity |-> defaultCapacity, RefillRate |-> defaultRefillRate]

\* the limit getBucket creates a bucket with
LimitFor(clientID) ==
  IF clientLimits[clientID] # NoLimit
    THEN clientLimits[clientID]
    ELSE [Capacity |-> defaultCapacity, RefillRate |-> defaultRefillRate]

\* getBucket, the branch taken when the read found no bucket: under the write
\* lock, create a bucket and store it in the map
GetBucketCreate(p) ==
  /\ proc[p].pc = "gb_lock"
  /\ rlmu = 0
  /\ LET clientID == proc[p].clientID
         limit == LimitFor(clientID)
     IN /\ heap' = Append(heap, NewTokenBucket(limit.Capacity, limit.RefillRate))
        /\ buckets' = [buckets EXCEPT ![clientID] = Len(heap) + 1]
        /\ since' = IF buckets[clientID] = 0
                      THEN [since EXCEPT ![clientID] = now] ELSE since
        /\ proc' = [proc EXCEPT ![p].bucket = Len(heap) + 1, ![p].pc = "tb_lock"]
  /\ UNCHANGED <<now, clientLimits, defaultCapacity, defaultRefillRate, rlmu, nops,
                 granted, admitted, calls>>
  /\ UNCHANGED lbvars

\* history: the time elapsed since the last refill has reached the time of one
\* token, floor(elapsed * tb.RefillRate) >= 1
Due(tb, t) ==
  /\ tb.RefillRate > 0
  /\ Elapsed(tb, t) > 0
  /\ \/ tb.RefillRate >= TicksPerSec
     \/ Elapsed(tb, t) * tb.RefillRate >= TicksPerSec

\* TokenBucket.Allow: tb.mu.Lock() and tb.refill()
BucketRefill(p) ==
  /\ proc[p].pc = "tb_lock"
  /\ heap[proc[p].bucket].mu = 0
  /\ \E tokensToAdd \in IntOfFloat(heap[proc[p].bucket], now) :
       heap' = [heap EXCEPT ![proc[p].bucket] = [refill(@, tokensToAdd) EXCEPT !.mu = p]]
  /\ proc' = [proc EXCEPT ![p].pc = "tb_take",
                          ![p].refilled = Due(heap[proc[p].bucket], now),
                          ![p].empty = heap[proc[p].bucket].Tokens = 0]
  /\ UNCHANGED <<now, buckets, clientLimits, defaultCapacity, defaultRefillRate, rlmu,
                 nops, granted, admitted, calls, since>>
  /\ UNCHANGED lbvars

\* a TokenBucket.Allow that takes the registry lock while it holds the bucket's
BucketTakeLocked(p) ==
  /\ rlmu = 0
  /\ proc[p].pc = "tb_take"
  /\ LET b == proc[p].bucket
         ok == HasToken(heap[b])
         c == proc[p].clientID
     IN /\ heap' = [heap EXCEPT ![b] = [TakeToken(@) EXCEPT !.mu = 0]]
        /\ calls' = [calls EXCEPT ![c] = @ + 1]
        /\ granted' = [granted EXCEPT ![c] = IF ok THEN @ + 1 ELSE @]
        /\ admitted' = [admitted EXCEPT ![c] = IF ok THEN @ + 1 ELSE @]
        /\ proc' = [proc EXCEPT ![p] = AfterAllow(proc[p], ok)]
  /\ UNCHANGED <<now, buckets, clientLimits, defaultCapacity, defaultRefillRate, rlmu,
                 nops, since>>
  /\ UNCHANGED lbvars

\* TokenBucket.Allow: lastSeen, the test and the decrement, the deferred Unlock
BucketTake(p) ==
  /\ proc[p].pc = "tb_take"
  /\ LET b == proc[p].bucket
         ok == HasToken(heap[b])
         c == proc[p].clientID
     IN /\ heap' = [heap EXCEPT ![b] = [TakeToken(@) EXCEPT !.mu = 0]]
        /\ calls' = [calls EXCEPT ![c] = @ + 1]
        /\ granted' = [granted EXCEPT ![c] = IF ok THEN @ + 1 ELSE @]
        /\ admitted' = [admitted EXCEPT ![c] = IF ok THEN @ + 1 ELSE @]
        /\ proc' = [proc EXCEPT ![p] = AfterAllow(proc[p], ok)]
  /\ UNCHANGED <<now, buckets, clientLimits, defaultCapacity, defaultRefillRate, rlmu,
                 nops, since>>
  /\ UNCHANGED lbvars

\* rl.Cleanup(expiration) begins: rl.mu.Lock() and now := time.Now()
CleanupLock(p, expiration) ==
  /\ CanStart(p)
  /\ rlmu = 0
  /\ rlmu' = p
  /\ nops' = nops + 1
  /\ proc' = [proc EXCEPT ![p] =
       [IdleProc EXCEPT !.op = "Cleanup", !.pc = "cl_range", !.cnow = now,
                        !.expiration = expiration,
                        !.todo = {c \in Clients : buckets[c] # 0}]]
  /\ UNCHANGED <<now, buckets, heap, clientLimits, defaultCapacity, defaultRefillRate,
                 granted, admitted, calls, since>>
  /\ UNCHANGED lbvars

\* a test that also deletes a bucket seen exactly the expiration ago
ExpiredAtLimit(tb, t, expiration) == t - tb.lastSeen >= expiration

\* the test of Cleanup on one bucket
Expired(tb, t, expiration) == t - tb.lastSeen > expiration

\* Cleanup, one iteration of the range over the map: read lastSeen under the
\* bucket's lock and delete the entry if it expired
CleanupVisit(p, clientID) ==
  /\ proc[p].pc = "cl_range"
  /\ clientID \in proc[p].todo
  /\ heap[buckets[clientID]].mu = 0
  /\ LET gone == Expired(heap[buckets[clientID]], proc[p].cnow, proc[p].expiration)
     IN /\ buckets' = IF gone THEN [buckets EXCEPT ![clientID] = 0] ELSE buckets
        /\ granted' = IF gone THEN [granted EXCEPT ![clientID] = 0] ELSE granted
        /\ calls' = IF gone THEN [calls EXCEPT ![clientID] = 0] ELSE calls
  /\ proc' = [proc EXCEPT ![p].todo = @ \ {clientID}]
  /\ UNCHANGED <<now, heap, clientLimits, defaultCapacity, defaultRefillRate, rlmu,
                 nops, since, admitted>>
  /\ UNCHANGED lbvars

\* Cleanup returns: the deferred rl.mu.Unlock()
CleanupUnlock(p) ==
  /\ proc[p].pc = "cl_range"
  /\ proc[p].todo = {}
  /\ rlmu' = 0
  /\ proc' = [proc EXCEPT ![p] = IdleProc]
  /\ UNCHANGED <<now, buckets, heap, clientLimits, defaultCapacity, defaultRefillRate,
                 nops, granted, admitted, calls, since>>
  /\ UNCHANGED lbvars

\* the clock advances, up to a limit
TickTo(limit) ==
  /\ now < limit
  /\ now' = now + 1
  /\ UNCHANGED <<buckets, heap, clientLimits, defaultCapacity, defaultRefillRate,
                 rlmu, proc, nops, granted, admitted, calls, since>>
  /\ UNCHANGED lbvars

Tick == TickTo(MaxTime)

\* the clock advances to more than a second after the start
LongTick == TickTo(TicksPerSec + 1)

(***************************************************************************)
(* RoundRobinLoadBalancer: the operations                                  *)
(***************************************************************************)
\* runHealthCheckLoop: the ticker fires and a probe goroutine is started for
\* every backend. The probes of the cycle before have finished: they time out
\* after healthCheckTimeout (2 s) and the ticker's period is
\* healthCheckInterval (10 s)
StartProbes ==
  /\ \A i \in Pool : probes[i].stage = "idle"
  /\ probes' = [i \in Pool |-> [stage |-> "sent", isHealthy |-> FALSE, fresh |-> TRUE]]
  /\ UNCHANGED <<backends, alive, currentIndex, recent, excluded, lastMark, proc>>
  /\ UNCHANGED rlvars

\* the ticker fires, counted as one of the MaxOps operations
HealthCheckTick ==
  /\ nops < MaxOps
  /\ nops' = nops + 1
  /\ StartProbes

\* the ticker fires, as often as the loop runs
HealthCheckLoop ==
  /\ StartProbes
  /\ UNCHANGED nops

\* a probe goroutine: client.Get returns, isHealthy is computed
ProbeRespond(i, isHealthy) ==
  /\ probes[i].stage = "sent"
  /\ probes' = [probes EXCEPT ![i].stage = "got", ![i].isHealthy = isHealthy]
  /\ UNCHANGED <<backends, alive, currentIndex, recent, excluded, lastMark, proc, nops>>
  /\ UNCHANGED rlvars

\* a store that never writes true
StoreAliveFalse(al, i, isHealthy) == [al EXCEPT ![i] = FALSE]

\* the alive flags after b.IsAlive.Store(isHealthy) on backend i
StoreAlive(al, i, isHealthy) == [al EXCEPT ![i] = isHealthy]

\* a probe goroutine: b.IsAlive.Store(isHealthy), and the goroutine ends
ProbeStore(i) ==
  /\ probes[i].stage = "got"
  /\ LET isHealthy == probes[i].isHealthy
         newAlive == StoreAlive(alive, i, isHealthy)
     IN /\ alive' = newAlive
        /\ probes' = [probes EXCEPT ![i] = NoProbe]
        /\ excluded' = [excluded EXCEPT ![i] =
                          IF ~isHealthy THEN TRUE
                          ELSE IF probes[i].fresh THEN FALSE ELSE @]
        /\ recent' = IF newAlive = alive THEN recent ELSE <<>>
        /\ proc' = [q \in Procs |-> IF InSelection(q) THEN Observe(proc[q], newAlive)
                                    ELSE proc[q]]
  /\ UNCHANGED <<backends, currentIndex, lastMark, nops>>
  /\ UNCHANGED rlvars

\* lb.NextAvailableBackend() is called
CallSelect(p) ==
  /\ proc[p].pc = "idle"
  /\ proc' = [proc EXCEPT ![p] =
                EnterSelect([IdleProc EXCEPT !.op = "NextAvailableBackend"])]
  /\ UNCHANGED lbvars
  /\ UNCHANGED rlvars

\* the call, counted as one of the MaxOps operations
NextAvailableBackend(p) ==
  /\ CanStart(p)
  /\ nops' = nops + 1
  /\ CallSelect(p)

\* the call, made as often as selections occur
SelectAgain(p) ==
  /\ CallSelect(p)
  /\ UNCHANGED nops

\* the loop of NextAvailableBackend: atomic.AddUint32 and the index; the cursor
\* is left at stored
SelectAddTo(p, stored) ==
  /\ proc[p].pc = "nab"
  /\ proc[p].attempt < Len(backends)
  /\ currentIndex' = stored
  /\ proc' = [proc EXCEPT ![p].pc = "nab_load",
                          ![p].added = @ + 1,
                          ![p].index = IndexOf(AddUint32(currentIndex), Len(backends))]
  /\ UNCHANGED <<backends, alive, probes, recent, excluded, lastMark, nops>>
  /\ UNCHANGED rlvars

SelectAdd(p) == SelectAddTo(p, AddUint32(currentIndex))

\* the cursor up to multiples of the pool size: for a pool size that divides
\* 2^32 (1 or 2 backends) every later index is the same for c and Residue(c)
Residue(c) == Uint32(0, c.lo % Len(backends))

\* the same step with the cursor kept up to multiples of the pool size
SelectAddResidue(p) == SelectAddTo(p, Residue(AddUint32(currentIndex)))

\* the loop of NextAvailableBackend: the candidate's IsAlive is loaded
SelectLoad(p) ==
  /\ proc[p].pc = "nab_load"
  /\ LET index == proc[p].index
         seen == [proc[p] EXCEPT !.examined = @ \cup {index},
                                 !.reexamined = @ \/ index \in proc[p].examined]
     IN IF IsAliveLoad(index)
          THEN /\ proc' = [proc EXCEPT ![p] = AfterSelect(seen, index)]
               /\ recent' = KeepLast(Append(recent, index), Len(backends))
          ELSE /\ proc' = [proc EXCEPT ![p] =
                             [seen EXCEPT !.pc = "nab", !.attempt = @ + 1]]
               /\ recent' = recent
  /\ UNCHANGED <<backends, alive, currentIndex, probes, excluded, lastMark, nops>>
  /\ UNCHANGED rlvars

\* NextAvailableBackend: the loop is over, return nil
SelectNone(p) ==
  /\ proc[p].pc = "nab"
  /\ proc[p].attempt >= Len(backends)
  /\ proc' = [proc EXCEPT ![p] = AfterSelect(proc[p], Nil)]
  /\ recent' = <<>>
  /\ UNCHANGED <<backends, alive, currentIndex, probes, excluded, lastMark, nops>>
  /\ UNCHANGED rlvars

\* the backend MarkBackendUnhealthy finds for an address (0: none)
FindBackend(address) ==
  IF \E i \in Pool : backends[i] = address
    THEN CHOOSE i \in Pool :
           /\ backends[i] = address
           /\ \A j \in Pool : backends[j] = address => i <= j
    ELSE 0

\* a marking that does not compare the addresses
MarkUnhealthyAll(al, address) == [i \in DOMAIN al |-> FALSE]

\* the alive flags after MarkBackendUnhealthy(address)
MarkUnhealthy(al, address) ==
  IF FindBackend(address) # 0 THEN [al EXCEPT ![FindBackend(address)] = FALSE] ELSE al

\* the shared state after MarkBackendUnhealthy(address), called by p that goes on as newp
Marking(p, newp, address) ==
  /\ alive' = MarkUnhealthy(alive, address)
  /\ probes' = [i \in Pool |-> IF i = FindBackend(address) THEN Outdated(probes[i])
                               ELSE probes[i]]
  /\ excluded' = [i \in Pool |-> IF i = FindBackend(address) THEN TRUE ELSE excluded[i]]
  /\ recent' = IF MarkUnhealthy(alive, address) = alive THEN recent ELSE <<>>
  /\ lastMark' = [count |-> lastMark.count + 1, address |-> address]
  /\ proc' = Procs2(p, newp, MarkUnhealthy(alive, address))
  /\ UNCHANGED <<backends, currentIndex>>
  /\ UNCHANGED rlvars

\* lb.MarkBackendUnhealthy(target) called directly
MarkBackendUnhealthy(p, address) ==
  /\ CanStart(p)
  /\ nops' = nops + 1
  /\ Marking(p, IdleProc, address)

(***************************************************************************)
(* ProxyServer.handleProxy behind RateLimitMiddleware                      *)
(***************************************************************************)
\* a request arrives: the middleware extracts the client and calls rl.Allow
Middleware(p, clientID) == GetBucketRead(p, clientID, "Request")

\* a forwarding that, on a transport error, selects another backend and retries
ForwardRetry(p, ok) ==
  /\ proc[p].pc = "hp_forward"
  /\ proc' = [proc EXCEPT ![p] =
       IF ok THEN [@ EXCEPT !.pc = "idle", !.forwarded = Append(@, proc[p].target),
                            !.responses = Append(@, BackendResponse)]
       ELSE EnterSelect([@ EXCEPT !.forwarded = Append(@, proc[p].target)])]
  /\ UNCHANGED nops
  /\ UNCHANGED lbvars
  /\ UNCHANGED rlvars

\* proxy.ServeHTTP(w, r): the request is forwarded to the target; the backend
\* answers (ok) or the transport fails and the ErrorHandler is called
Forward(p, ok) ==
  /\ proc[p].pc = "hp_forward"
  /\ proc' = [proc EXCEPT ![p] =
       IF ok THEN [@ EXCEPT !.pc = "idle", !.forwarded = Append(@, proc[p].target),
                            !.responses = Append(@, BackendResponse)]
       ELSE [@ EXCEPT !.pc = "hp_error", !.forwarded = Append(@, proc[p].target)]]
  /\ UNCHANGED nops
  /\ UNCHANGED lbvars
  /\ UNCHANGED rlvars

\* the ErrorHandler: p.balancer.MarkBackendUnhealthy(target.Address)
ErrorHandlerMark(p) ==
  /\ proc[p].pc = "hp_error"
  /\ LET address == backends[proc[p].target + 1]
     IN Marking(p, [proc[p] EXCEPT !.pc = "hp_reply", !.address = address,
                                   !.marked = @ \cup ({FindBackend(address)} \ {0})],
                address)
  /\ UNCHANGED nops

\* the ErrorHandler: sendJSONError(rw, 503, "Backend unavailable")
ErrorHandlerReply(p) ==
  /\ proc[p].pc = "hp_reply"
  /\ proc' = [proc EXCEPT ![p].pc = "idle", ![p].responses = Append(@, JSONError(503))]
  /\ UNCHANGED nops
  /\ UNCHANGED lbvars
  /\ UNCHANGED rlvars

(***************************************************************************)
(* Specifications                                                          *)
(***************************************************************************)
InitCommon ==
  /\ now = 0
  /\ proc = [p \in Procs |-> IdleProc]
  /\ nops = 0
  /\ granted = [c \in Clients |-> 0]
  /\ admitted = [c \in Clients |-> 0]
  /\ calls = [c \in Clients |-> 0]
  /\ since = [c \in Clients |-> 0]
  /\ recent = <<>>
  /\ lastMark = [count |-> 0, address |-> ""]

\* the configured backend URLs: none, one, two, the same twice, an
\* unparsable one, three
Configs == {<<>>, <<"a">>, <<"a", "b">>, <<"a", "a">>, <<"a", "bad">>, <<"a", "b", "c">>}
ProxyConfigs == {<<>>, <<"a">>, <<"a", "b">>, <<"a", "a">>}
Addrs == {"a", "b", "c"}

\* currentIndex after construction, and after 2^32 - 2 selection attempts
CursorStarts == {Uint32(0, 0), Uint32(Half - 1, Half - 2)}

\* the rate limiter alone, called directly by concurrent goroutines
InitRL ==
  /\ InitCommon
  /\ \E capacity \in Capacities, refillRate \in RefillRates :
       NewRateLimiter(capacity, refillRate)
  /\ NewRoundRobinLoadBalancer(<<>>)
  /\ currentIndex = Uint32(0, 0)

Limits == [Capacity : Capacities, RefillRate : RefillRates]

RLStep(p, C) ==
  \/ \E c \in C : GetBucketRead(p, c, "Allow")
  \/ GetBucketCreate(p)
  \/ BucketRefill(p)
  \/ BucketTake(p)
  \/ \E c \in C, l \in Limits : SetClientLimit(p, c, l)
  \/ \E e \in TTLs : CleanupLock(p, e)
  \/ \E c \in C : CleanupVisit(p, c)
  \/ CleanupUnlock(p)

NextRL == (\E p \in Procs : RLStep(p, OneClient)) \/ Tick
SpecRL == InitRL /\ [][NextRL]_vars

\* the steps of a call in progress of goroutine p
RLContinue(p) ==
  \/ GetBucketCreate(p)
  \/ BucketRefill(p)
  \/ BucketTake(p)
  \/ \E c \in Clients : CleanupVisit(p, c)
  \/ CleanupUnlock(p)

\* the scheduler runs every goroutine that can take a step: a goroutine whose
\* next step stays possible eventually takes it
FairRL == \A p \in Procs : WF_vars(RLContinue(p))

\* the rate limiter of NewRateLimiter(1, 1) called by concurrent goroutines that
\* are scheduled fairly; SetClientLimit is called with one limit
InitRLFair ==
  /\ InitCommon
  /\ NewRateLimiter(1, 1)
  /\ NewRoundRobinLoadBalancer(<<>>)
  /\ currentIndex = Uint32(0, 0)

FairLimits == {[Capacity |-> 0, RefillRate |-> 0]}

RLFairStep(p) ==
  \/ \E c \in OneClient : GetBucketRead(p, c, "Allow")
  \/ \E c \in OneClient, l \in FairLimits : SetClientLimit(p, c, l)
  \/ \E e \in TTLs : CleanupLock(p, e)
  \/ RLContinue(p)

NextRLFair == (\E p \in Procs : RLFairStep(p)) \/ Tick
SpecRLFair == InitRLFair /\ [][NextRLFair]_vars /\ FairRL

\* the rate limiter called by one goroutine, one call after the other
NextRLSeq == (\E p \in SeqProcs : RLStep(p, Clients)) \/ Tick
SpecRLSeq == InitRL /\ [][NextRLSeq]_vars

\* the rate limiter of one client called by one goroutine, with the default
\* capacity and refill rate drawn from the ends of int's range too
WideCapacities == {1, IntMax - 1, IntMax}
WideRefillRates == {0, 1, IntMax}

InitRLWide ==
  /\ InitCommon
  /\ \E capacity \in WideCapacities, refillRate \in WideRefillRates :
       NewRateLimiter(capacity, refillRate)
  /\ NewRoundRobinLoadBalancer(<<>>)
  /\ currentIndex = Uint32(0, 0)

RLWideStep(p) ==
  \/ \E c \in OneClient : GetBucketRead(p, c, "Allow")
  \/ GetBucketCreate(p)
  \/ BucketRefill(p)
  \/ BucketTake(p)

NextRLWide == (\E p \in SeqProcs : RLWideStep(p)) \/ LongTick
SpecRLWide == InitRLWide /\ [][NextRLWide]_vars

\* the rate limiter called by concurrent goroutines for two clients, with
\* the periodic sweep
RLPairStep(p) ==
  \/ \E c \in Clients : GetBucketRead(p, c, "Allow")
  \/ GetBucketCreate(p)
  \/ BucketRefill(p)
  \/ BucketTake(p)
  \/ \E e \in TTLs : CleanupLock(p, e)
  \/ \E c \in Clients : CleanupVisit(p, c)
  \/ CleanupUnlock(p)

NextRLPair == (\E p \in Procs : RLPairStep(p)) \/ Tick
SpecRLPair == InitRL /\ [][NextRLPair]_vars

\* the balancer alone: selections and failure feedback by concurrent
\* goroutines, and the health-check loop
InitLB ==
  /\ InitCommon
  /\ NewRateLimiter(1, 1)
  /\ \E backendURLs \in Configs : NewRoundRobinLoadBalancer(backendURLs)
  /\ currentIndex \in CursorStarts

LBStep(p) ==
  \/ NextAvailableBackend(p)
  \/ SelectAdd(p)
  \/ SelectLoad(p)
  \/ SelectNone(p)
  \/ \E a \in Addrs : MarkBackendUnhealthy(p, a)

ProbeStep ==
  \/ HealthCheckTick
  \/ \E i \in Pool, isHealthy \in BOOLEAN : ProbeRespond(i, isHealthy)
  \/ \E i \in Pool : ProbeStore(i)

NextLB == (\E p \in Procs : LBStep(p)) \/ ProbeStep
SpecLB == InitLB /\ [][NextLB]_vars

\* the balancer running on: the health-check loop keeps running, selections
\* keep occurring, and at most MaxOps transport errors are fed back. The pools
\* have 1 or 2 backends, and the cursor is kept up to multiples of the pool size
LiveConfigs == {<<"a">>, <<"a", "b">>, <<"a", "a">>}
LivePool == {1, 2}

InitLBLive ==
  /\ InitCommon
  /\ NewRateLimiter(1, 1)
  /\ \E backendURLs \in LiveConfigs : NewRoundRobinLoadBalancer(backendURLs)
  /\ currentIndex = Uint32(0, 0)

LiveSelectStep(p) ==
  \/ SelectAgain(p)
  \/ SelectAddResidue(p)
  \/ SelectLoad(p)
  \/ SelectNone(p)

LiveProbeStep(i) ==
  /\ i \in Pool
  /\ \/ \E isHealthy \in BOOLEAN : ProbeRespond(i, isHealthy)
     \/ ProbeStore(i)

NextLBLive ==
  \/ \E p \in SeqProcs : LiveSelectStep(p)
  \/ \E p \in SeqProcs, a \in Addrs : MarkBackendUnhealthy(p, a)
  \/ HealthCheckLoop
  \/ \E i \in LivePool : LiveProbeStep(i)

\* every goroutine that can take a step eventually takes one: the ticker
\* fires, a probe returns within healthCheckTimeout and stores its result, a
\* caller goes on selecting
FairLBLive ==
  /\ WF_vars(HealthCheckLoop)
  /\ \A i \in LivePool : WF_vars(LiveProbeStep(i))
  /\ \A p \in SeqProcs : WF_vars(LiveSelectStep(p))

SpecLBLive == InitLBLive /\ [][NextLBLive]_vars /\ FairLBLive

\* the same, right after construction (the cursor is far from its wrap-around)
InitLBNew ==
  /\ InitCommon
  /\ NewRateLimiter(1, 1)
  /\ \E backendURLs \in Configs : NewRoundRobinLoadBalancer(backendURLs)
  /\ currentIndex = Uint32(0, 0)

SpecLBNew == InitLBNew /\ [][NextLB]_vars

\* the balancer with one caller, one call after the other
NextLBSeq == (\E p \in SeqProcs : LBStep(p)) \/ ProbeStep
SpecLBSeq == InitLB /\ [][NextLBSeq]_vars

\* the proxy: concurrent requests through the middleware and handleProxy, and
\* the health-check loop
InitProxy ==
  /\ InitCommon
  /\ \E capacity \in Capacities : NewRateLimiter(capacity, 0)
  /\ \E backendURLs \in ProxyConfigs : NewRoundRobinLoadBalancer(backendURLs)
  /\ currentIndex = Uint32(0, 0)

RequestStep(p) ==
  \/ \E c \in OneClient : Middleware(p, c)
  \/ GetBucketCreate(p)
  \/ BucketRefill(p)
  \/ BucketTake(p)
  \/ SelectAdd(p)
  \/ SelectLoad(p)
  \/ SelectNone(p)
  \/ \E ok \in BOOLEAN : Forward(p, ok)
  \/ ErrorHandlerMark(p)
  \/ ErrorHandlerReply(p)

NextProxy == (\E p \in Procs : RequestStep(p)) \/ ProbeStep
SpecProxy == InitProxy /\ [][NextProxy]_vars

\* the client identity alone: requests with every header value over Chars
Chars == {"a", "b", ",", " "}
RECURSIVE StringsUpTo(_)
StringsUpTo(n) ==
  IF n = 0 THEN {<<>>}
  ELSE StringsUpTo(n - 1) \cup
       {Append(s, ch) : s \in {t \in StringsUpTo(n - 1) : Len(t) = n - 1}, ch \in Chars}
\* X-Real-IP: absent or one character; X-Forwarded-For: absent or a list
RealIPs == StringsUpTo(1)
ForwardedFors == StringsUpTo(MaxHeaderLen)
RemoteAddrs == {<<"a", ":", "8">>, <<"b", ":", "8">>, <<"a">>}
Requests ==
  [xRealIP : RealIPs, xForwardedFor : ForwardedFors, remoteAddr : RemoteAddrs]

InitIdentity ==
  /\ InitCommon
  /\ NewRateLimiter(1, 1)
  /\ NewRoundRobinLoadBalancer(<<>>)
  /\ currentIndex = Uint32(0, 0)

NextIdentity == \E p \in SeqProcs : \E r \in Requests : ExtractClientIP(p, r)
SpecIdentity == InitIdentity /\ [][NextIdentity]_vars

\* the whole program
Next == NextRL \/ NextLB \/ NextProxy \/ NextIdentity \/ NextLBLive \/ NextRLFair
Spec == InitProxy /\ [][Next]_vars

(***************************************************************************)
(* Properties                                                              *)
(***************************************************************************)
\* the bucket the map holds for a client
BucketOf(c) == heap[buckets[c]]

\* the step in which p's rl.Allow returns
AllowReturns(p) == proc[p].pc = "tb_take" /\ proc'[p].pc # "tb_take"

\* the step in which p's NextAvailableBackend returns backend number i (from 0)
SelectReturns(p, i) ==
  /\ proc[p].pc = "nab_load"
  /\ proc'[p].pc \notin {"nab", "nab_load"}
  /\ proc'[p].target = i

\* p's direct call of NextAvailableBackend has returned
Selected(p) == proc[p].op = "NextAvailableBackend" /\ proc[p].pc = "idle"

\* C1: while no time has passed since a client's bucket was created, the Allow
\* calls of the client that returned true number min(calls returned, capacity),
\* whatever the interleaving of the concurrent calls. (Stated for the clients
\* without an override, whose capacity is the default one.)
NoOverAdmission ==
  \A c \in Clients :
    (clientLimits[c] = NoLimit /\ buckets[c] # 0 /\ now = since[c]) =>
      granted[c] = Min(calls[c], defaultCapacity)

\* the admissions of sequential calls on a bucket no time has passed for
FirstCallsAdmitted(c) ==
  (buckets[c] # 0 /\ now = since[c]) =>
    granted[c] = Min(calls[c], BucketOf(c).Capacity)

\* p's Allow call returns, and its refill had found floor(elapsed x R) >= 1
RefilledCallReturns(p) == AllowReturns(p) /\ proc[p].refilled

\* the call of p that returns in this step returns true
Admitted(p) == granted'[proc[p].clientID] = granted[proc[p].clientID] + 1

\* C2 as claimed: called sequentially, exactly the first C calls on a new bucket
\* are admitted while no time passes, and a call made once floor(elapsed x R) >= 1
\* is admitted, for every capacity C.
SequentialAdmissionAnyCapacity ==
  /\ [](\A c \in Clients : FirstCallsAdmitted(c))
  /\ [][\A p \in Procs : RefilledCallReturns(p) => Admitted(p)]_vars

\* the same for the capacities C >= 1 (a bucket of capacity 0 stays empty and
\* admits nothing, refilled or not); it holds while tokens + tokensToAdd stays
\* within int's range
SequentialAdmission ==
  /\ [](\A c \in Clients : FirstCallsAdmitted(c))
  /\ [][\A p \in Procs :
          (RefilledCallReturns(p) /\ heap[proc[p].bucket].Capacity >= 1)
            => Admitted(p)]_vars

\* a client of capacity 1 was admitted once, denied, and admitted again after
\* the refill
SequentialAdmissionWitness ==
  \E c \in Clients :
    /\ buckets[c] # 0
    /\ BucketOf(c).Capacity = 1
    /\ calls[c] = 3
    /\ granted[c] = 2

\* C3: a backend marked not alive is returned by no selection until a probe
\* issued after the marking has succeeded.
UnhealthyExclusion ==
  [][\A p \in Procs : \A i \in Pool : SelectReturns(p, i - 1) => ~excluded[i]]_vars

\* C4: with all N backends alive and no alive flag written, N consecutive
\* selections return the N backends, each once.
RoundRobinCoverage ==
  (Len(backends) > 0 /\ (\A i \in Pool : alive[i]) /\ Len(recent) = Len(backends)) =>
    {recent[k] : k \in 1..Len(recent)} = {i - 1 : i \in Pool}

\* C5: a selection examines no backend twice, and returns nil only if no backend
\* was alive for the whole call.
OnePassSelection ==
  \A p \in Procs :
    proc[p].op = "NextAvailableBackend" =>
      /\ ~proc[p].reexamined
      /\ (Selected(p) /\ proc[p].target = Nil) => proc[p].steady = {}

\* C6: when the ErrorHandler answers 503, its MarkBackendUnhealthy call has
\* stored false in the alive flag of the backend the request was forwarded to.
ChosenBackendMarked ==
  \A p \in Procs :
    proc[p].pc = "hp_reply" => (proc[p].target + 1) \in proc[p].marked

\* the step is a call of MarkBackendUnhealthy
MarkReturns == lastMark'.count # lastMark.count

\* what a MarkBackendUnhealthy(address) step changes
MarkFrame(address) ==
  /\ currentIndex' = currentIndex
  /\ \A i \in Pool : backends[i] # address => alive'[i] = alive[i]
  /\ \A i \in Pool : alive'[i] => alive[i]
  /\ Cardinality({i \in Pool : alive'[i] # alive[i]}) <= 1
  /\ (\E i \in Pool : backends[i] = address)
       => (\E i \in Pool : backends[i] = address /\ ~alive'[i])
  /\ (\A i \in Pool : backends[i] # address) => alive' = alive

\* C7: MarkBackendUnhealthy(address) stores false in a backend of that address
\* and changes no other alive flag nor the cursor; it changes nothing when no
\* backend has the address, and marking twice is marking once.
IsolatedFailure ==
  /\ [][MarkReturns => MarkFrame(lastMark'.address)]_vars
  /\ [](\A a \in Addrs :
          MarkUnhealthy(MarkUnhealthy(alive, a), a) = MarkUnhealthy(alive, a))

\* C7 witness: a backend was marked and another one is still alive
IsolatedFailureWitness ==
  /\ lastMark.count > 0
  /\ FindBackend(lastMark.address) # 0
  /\ ~alive[FindBackend(lastMark.address)]
  /\ \E i \in Pool : alive[i]

\* a request that has been answered
Answered(p) == proc[p].op = "Request" /\ proc[p].pc = "idle"

\* the ErrorHandler of p's request has run
TransportError(p) == proc[p].address # ""

\* the response a request in its terminal state has emitted
TerminalResponse(p) ==
  IF proc[p].selections = 0 THEN PlainError(429)
  ELSE IF proc[p].target = Nil THEN JSONError(503)
  ELSE IF TransportError(p) THEN JSONError(503)
  ELSE BackendResponse

\* C8: a request emits no response before its terminal state and exactly one
\* there, the one of that state; it calls the selector at most once and is
\* forwarded to at most one backend.
OneResponsePerRequest ==
  \A p \in Procs :
    proc[p].op = "Request" =>
      /\ proc[p].selections <= 1
      /\ Len(proc[p].forwarded) <= 1
      /\ ~Answered(p) => proc[p].responses = <<>>
      /\ Answered(p) => proc[p].responses = <<TerminalResponse(p)>>
      /\ (Answered(p) /\ proc[p].selections = 0) => proc[p].forwarded = <<>>
      /\ (Answered(p) /\ proc[p].target = Nil) => proc[p].forwarded = <<>>

\* C8 witness: a request was forwarded, met a transport error and was answered 503
OneResponsePerRequestWitness ==
  \E p \in Procs :
    /\ Answered(p)
    /\ TransportError(p)
    /\ Len(proc[p].forwarded) = 1
    /\ proc[p].responses = <<JSONError(503)>>

\* C9: every 429 and 503 response has a JSON body whose code is the status.
FailureResponseContract ==
  \A p \in Procs : \A k \in 1..Len(proc[p].responses) :
    proc[p].responses[k].status \in {429, 503} =>
      /\ proc[p].responses[k].contentType = "application/json"
      /\ proc[p].responses[k].code = proc[p].responses[k].status

\* C10: a selection during which no backend was ever alive returns nil, and so
\* does every selection on an empty pool, which leaves the cursor unchanged.
NoneAvailable ==
  /\ [](\A p \in Procs :
          (Selected(p) /\ (Len(backends) = 0 \/ ~proc[p].everAlive))
            => proc[p].target = Nil)
  /\ [][Len(backends) = 0 => currentIndex' = currentIndex]_vars

\* C10 witness: a selection on a pool whose backends are all not alive returned nil
NoneAvailableWitness ==
  \E p \in Procs :
    /\ Selected(p)
    /\ Len(backends) > 0
    /\ ~proc[p].everAlive
    /\ proc[p].target = Nil

\* the step in which the Cleanup call of p visits the map entry of client c
CleanupVisits(p, c) ==
  /\ proc[p].pc = "cl_range"
  /\ c \in proc[p].todo
  /\ c \notin proc'[p].todo

\* the step in which the Cleanup call of p returns
CleanupReturns(p) == proc[p].pc = "cl_range" /\ proc'[p].pc = "idle"

LimitNotRetroactive ==
  /\ [][\A c \in Clients :
          (buckets'[c] # buckets[c] /\ buckets'[c] # 0) =>
            /\ heap'[buckets'[c]].Capacity =
                 IF clientLimits[c] # NoLimit THEN clientLimits[c].Capacity
                 ELSE defaultCapacity
            /\ heap'[buckets'[c]].RefillRate =
                 IF clientLimits[c] # NoLimit THEN clientLimits[c].RefillRate
                 ELSE defaultRefillRate
            /\ heap'[buckets'[c]].Tokens = heap'[buckets'[c]].Capacity]_vars
  /\ [][clientLimits' # clientLimits => (heap' = heap /\ buckets' = buckets)]_vars
  /\ [][\A b \in 1..Len(heap) :
          /\ heap'[b].Capacity = heap[b].Capacity
          /\ heap'[b].RefillRate = heap[b].RefillRate]_vars

\* C12 witness: a client's bucket, created under the defaults, keeps its capacity
\* after an override with another capacity was registered for the client
LimitNotRetroactiveWitness ==
  \E c \in Clients :
    /\ buckets[c] # 0
    /\ clientLimits[c] # NoLimit
    /\ BucketOf(c).Capacity = defaultCapacity
    /\ clientLimits[c].Capacity # defaultCapacity

\* the client identifier as the claim defines it
ClaimedIdentity(r) ==
  IF r.xRealIP # <<>> THEN TrimSpace(r.xRealIP)
  ELSE IF r.xForwardedFor # <<>> THEN TrimSpace(FirstEntry(r.xForwardedFor))
  ELSE TrimSpace(SplitHostPort(r.remoteAddr))

\* C13: the key of the rate-limit check is the trimmed X-Real-IP if that header
\* is not empty, else the trimmed first comma-separated entry of X-Forwarded-For
\* if that is not empty, else the trimmed host of RemoteAddr.
ClientIdentity ==
  \A p \in Procs :
    proc[p].op = "ExtractClientIP" =>
      proc[p].clientID = ClaimedIdentity(proc[p].request)

\* a step of the Allow call p runs for client c
AllowActs(p, c) ==
  /\ proc[p].op \in {"Allow", "Request"}
  /\ proc[p].pc \in {"gb_lock", "tb_lock", "tb_take"}
  /\ proc[p].clientID = c
  /\ proc'[p] # proc[p]

\* C14: a step of an Allow call for client c changes neither the map entry nor
\* the bucket of another client d, nor the bucket an Allow call for d holds; and
\* the first Allow call completing on a bucket of capacity >= 1 is admitted,
\* whatever the buckets of other clients hold.
PerClientIsolation ==
  /\ [][\A p \in Procs : \A c \in Clients : \A d \in Clients \ {c} :
          AllowActs(p, c) =>
            /\ buckets'[d] = buckets[d]
            /\ buckets[d] # 0 => heap'[buckets[d]] = heap[buckets[d]]
            /\ \A q \in Procs :
                 (proc[q].clientID = d /\ proc[q].bucket # 0)
                   => heap'[proc[q].bucket] = heap[proc[q].bucket]]_vars
  /\ [][\A p \in Procs :
          (/\ AllowReturns(p)
           /\ ~heap[proc[p].bucket].used
           /\ heap[proc[p].bucket].Capacity >= 1) => Admitted(p)]_vars

\* C14 witness: client c1 has exhausted its bucket and was denied, and the first
\* request of client c2 was admitted
PerClientIsolationWitness ==
  /\ buckets["c1"] # 0
  /\ BucketOf("c1").Capacity = 1
  /\ BucketOf("c1").Tokens = 0
  /\ calls["c1"] = 2
  /\ granted["c1"] = 1
  /\ calls["c2"] = 1
  /\ granted["c2"] = 1

\* C15: every bucket of capacity >= 0 holds between 0 and capacity tokens.
TokenInvariant ==
  \A b \in 1..Len(heap) :
    heap[b].Capacity >= 0 => (0 <= heap[b].Tokens /\ heap[b].Tokens <= heap[b].Capacity)

\* the step in which the Allow call of p locks its bucket and refills it
BucketRefills(p) == proc[p].pc = "tb_lock" /\ proc'[p].pc = "tb_take"

\* C16: lastRefill is advanced only by the refill of an Allow call for which
\* floor(elapsed x refillRate) >= 1, and then to now; and the Allow call that
\* finds the bucket empty once the time since lastRefill has reached
\* 1/refillRate seconds is admitted, however often the bucket was polled before.
RefillKeepsFraction ==
  /\ [][\A b \in 1..Len(heap) :
          heap'[b].lastRefill # heap[b].lastRefill =>
            /\ heap'[b].lastRefill = now
            /\ Due(heap[b], now)
            /\ \E p \in Procs : BucketRefills(p) /\ proc[p].bucket = b]_vars
  /\ [][\A p \in Procs :
          (AllowReturns(p) /\ proc[p].empty /\ proc[p].refilled) => Admitted(p)]_vars

\* the request of p has been answered 429
Denied(p) ==
  /\ proc[p].op = "Request"
  /\ \E k \in 1..Len(proc[p].responses) : proc[p].responses[k].status = 429

\* a step of the rate-limit check of p's request, its first step included
RateCheckActs(p) ==
  /\ proc'[p] # proc[p]
  /\ \/ proc[p].op = "Request" /\ proc[p].pc \in {"gb_lock", "tb_lock", "tb_take"}
     \/ /\ proc[p].pc = "idle"
        /\ proc'[p].op = "Request"
        /\ proc'[p].pc \in {"gb_lock", "tb_lock"}

\* C17: a request answered 429 has not called NextAvailableBackend, has examined
\* no backend, was forwarded to none and has marked none; and no step of a
\* request's rate-limit check changes the cursor or an alive flag.
RateCheckPrecedesSelection ==
  /\ [](\A p \in Procs :
          Denied(p) =>
            /\ proc[p].pc = "idle"
            /\ proc[p].selections = 0
            /\ proc[p].attempt = 0
            /\ proc[p].examined = {}
            /\ proc[p].forwarded = <<>>
            /\ proc[p].marked = {})
  /\ [][\A p \in Procs :
          RateCheckActs(p) => (currentIndex' = currentIndex /\ alive' = alive)]_vars

\* C17 witness: a request was denied while an alive backend was there to select,
\* and the cursor is where the constructor left it
RateCheckPrecedesSelectionWitness ==
  \E p \in Procs :
    /\ Denied(p)
    /\ Len(backends) = 2
    /\ \A i \in Pool : alive[i]
    /\ currentIndex = Uint32(0, 0)

\* the step in which the probe goroutine of backend i stores its result
ProbeStores(i) ==
  /\ i \in Pool
  /\ probes[i].stage = "got"
  /\ probes'[i].stage = "idle"

\* no probe of backend i has failed and not yet stored its result
ProbeHealthy(i) == i \in Pool => (probes[i].stage = "got" => probes[i].isHealthy)

IsAliveAt(i) == i \in Pool => alive[i]

\* a NextAvailableBackend call has just returned backend i
ReturnedAt(i) ==
  i \in Pool => \E p \in Procs : Selected(p) /\ proc[p].target = i - 1

\* C18: a probe stores its result, true exactly if it succeeded, in the alive
\* flag of its own backend and writes no other flag; and a backend whose probes
\* all succeed from some point on is from some point on alive for good and is
\* returned by selections again and again, once the transport errors have ended.
Recovery ==
  /\ [][\A i \in LivePool :
          ProbeStores(i) => alive' = [alive EXCEPT ![i] = probes[i].isHealthy]]_vars
  /\ \A i \in LivePool :
       <>[]ProbeHealthy(i) => (<>[]IsAliveAt(i) /\ []<>ReturnedAt(i))

\* C18 witness: a backend that was marked not alive is alive again after a probe
\* issued after the marking, and a selection has returned it
RecoveryWitness ==
  \E i \in Pool :
    /\ lastMark.count > 0
    /\ FindBackend(lastMark.address) = i
    /\ alive[i]
    /\ ~excluded[i]
    /\ \E p \in Procs : Selected(p) /\ proc[p].target = i - 1

\* the step in which the NextAvailableBackend call of p returns
SelectEnds(p) ==
  /\ proc[p].pc \in {"nab", "nab_load"}
  /\ proc'[p].pc \notin {"nab", "nab_load"}

\* the cursor d is the cursor c advanced by one, modulo 2^32
AdvancedByOne(c, d) ==
  /\ d.lo = (c.lo + 1) % Half
  /\ d.hi = IF c.lo + 1 = Half THEN (c.hi + 1) % Half ELSE c.hi

\* C19: every step that changes the cursor is one selection attempt of one
\* NextAvailableBackend call and advances it by exactly one (so no probe and no
\* MarkBackendUnhealthy changes it); a call that returns a backend at its k-th
\* attempt, after k - 1 candidates found not alive, has advanced it k times, and
\* a call that returns nil has advanced it N times.
CursorAccounting ==
  [][/\ currentIndex' # currentIndex =>
          /\ AdvancedByOne(currentIndex, currentIndex')
          /\ \E p \in Procs :
               /\ proc[p].pc = "nab"
               /\ proc'[p].pc = "nab_load"
               /\ proc'[p].added = proc[p].added + 1
               /\ \A q \in Procs \ {p} : proc'[q].added = proc[q].added
     /\ \A p \in Procs :
          proc'[p].added = proc[p].added + 1 => currentIndex' # currentIndex
     /\ \A p \in Procs :
          SelectEnds(p) =>
            proc'[p].added = IF proc'[p].target # Nil THEN proc[p].attempt + 1
                             ELSE Len(backends)]_vars

\* C19 witness: a call returned a backend at its second attempt, having advanced
\* the cursor twice, while a backend was marked in between
CursorAccountingWitness ==
  \E p \in Procs :
    /\ Selected(p)
    /\ proc[p].target # Nil
    /\ proc[p].added = 2
    /\ lastMark.count > 0

\* C20: in the window from the start to now, of length now / TicksPerSec
\* seconds, the Allow calls of a client with the default capacity C and refill
\* rate R that returned true number at most C + floor(length x R), the Cleanup
\* sweeps made in between included.
RateBoundAcrossSweeps ==
  \A c \in Clients :
    clientLimits[c] = NoLimit =>
      admitted[c] <= defaultCapacity + (now * defaultRefillRate) \div TicksPerSec

\* goroutine p holds the registry lock rl.mu / the lock of bucket object b
HoldsRegistry(p) == rlmu = p
HoldsBucket(p, b) == heap[b].mu = p

\* goroutine p is at a Lock call of the registry lock / of bucket object b
WantsRegistry(p) == proc[p].pc = "gb_lock"
WantsBucket(p, b) ==
  \/ proc[p].pc = "tb_lock" /\ proc[p].bucket = b
  \/ proc[p].pc = "cl_range" /\ \E c \in proc[p].todo : buckets[c] = b

\* p is at the Lock call of a lock that q holds
WaitsFor(p, q) ==
  \/ WantsRegistry(p) /\ HoldsRegistry(q)
  \/ \E b \in DOMAIN heap : WantsBucket(p, b) /\ HoldsBucket(q, b)

\* C21: no goroutine waits for a lock it holds itself, no two goroutines wait
\* for a lock the other holds, and a goroutine holding a bucket's lock is at no
\* Lock call at all; and under fair scheduling every Allow, SetClientLimit and
\* Cleanup call that has begun returns.
DeadlockFreedom ==
  /\ [](\A p, q \in Procs : ~(WaitsFor(p, q) /\ WaitsFor(q, p)))
  /\ [](\A p \in Procs : \A b \in DOMAIN heap :
          HoldsBucket(p, b) =>
            ~WantsRegistry(p) /\ \A d \in DOMAIN heap : ~WantsBucket(p, d))
  /\ \A p \in Procs : (proc[p].pc # "idle") ~> (proc[p].pc = "idle")

\* C21 witness: a Cleanup call holds the registry lock and is at the Lock call
\* of a bucket that an Allow call holds, and an earlier call has returned
DeadlockFreedomWitness ==
  \E p, q \in Procs :
    /\ HoldsRegistry(p)
    /\ WaitsFor(p, q)
    /\ proc[q].pc = "tb_take"
    /\ nops = MaxOps

=============================================================================
